---- MODULE Spec2Model ----
(***************************************************************************)
(* The three WebGL fluid solvers of the repository                         *)
(*   "vortex"    src/assets/js/vortex_bg.js  (vorticity variant)           *)
(*   "fluid_sim" src/assets/js/fluid_sim.js  (FluidSim, patched)           *)
(*   "part_000"  src/unnamed/part_000        (FluidSim, stripped)          *)
(* as one state machine.  Every browser callback (init, the frame          *)
(* callback, the ambient interval timer, the resize and pointer listeners, *)
(* enable/disable) is one atomic action: JavaScript runs each callback to  *)
(* completion.  Inside a callback the WebGL calls are executed in source   *)
(* order by a small interpreter (Run) over the GL state the code relies    *)
(* on: current program, active texture unit, texture units, sampler        *)
(* uniforms, bound framebuffer, viewport, vertex array 0.  Texel values    *)
(* are abstracted to a tag naming the pass that last wrote the texture.    *)
(* Times are integer milliseconds, dt is in microseconds.  The clock is     *)
(* kept relative to the stored timestamp: elapsed is performance.now()    *)
(* (the frame timestamp) minus lastTime / lastT / last.                    *)
(***************************************************************************)
EXTENDS Integers, Sequences, FiniteSets, TLC

VARIABLES variant, webgl2, initialized, active, loops, timers, listeners,
          client, canvas, fields, content, gl, pointer, elapsed,
          ribbonProgress, presented, log, handler, dt, events, gen,
          hist, failedKernels, data

vars == <<variant, webgl2, initialized, active, loops, timers, listeners,
          client, canvas, fields, content, gl, pointer, elapsed,
          ribbonProgress, presented, log, handler, dt, events, gen,
          hist, failedKernels, data>>

----------------------------------------------------------------------------
(* Bounds of the model *)

MaxEvents == 3

(* Time between two frame callbacks, in ms: a vsync frame and a stall *)
Deltas == {16, 5000}

(* Display sizes of the canvas (clientWidth, clientHeight) *)
Sizes == {<<0, 0>>, <<4, 2>>, <<2, 4>>}

----------------------------------------------------------------------------
(* Program constants *)

Variants == {"vortex", "fluid_sim", "part_000"}

SIM_RESOLUTION == 240
DYE_RESOLUTION == 1080
PRESSURE_ITERATIONS_VORTEX == 30
PRESSURE_ITERATIONS_FLUID == 20
AMBIENT_SPLATS == 1
INITIAL_SPLATS == 5
DT_CLAMP_MS == 33
TIME_STEP_MS == 10
TARGET_STEP_MS == 16
RIBBON_RATE_PCT == 16
RIBBON_UNIT == 1000000

IsFluidSim(v) == v \in {"fluid_sim", "part_000"}

PRESSURE_ITERATIONS(v) ==
    IF v = "vortex" THEN PRESSURE_ITERATIONS_VORTEX ELSE PRESSURE_ITERATIONS_FLUID

(* The name of the colour field: dye in vortex_bg.js, density in FluidSim *)
DyeField(v) == IF v = "vortex" THEN "dye" ELSE "density"

----------------------------------------------------------------------------
(* Textures, fields and content tags *)

NoTex == [f |-> "none", side |-> "-", gen |-> 0, w |-> 0, h |-> 0]
Canvas == [f |-> "canvas", side |-> "-", gen |-> 0, w |-> 0, h |-> 0]

(* The labels a solver holds: <<field, "read" | "write" | "texture">> *)
Refs(v) ==
    IF v = "vortex"
    THEN {<<"velocity", "read">>, <<"velocity", "write">>,
          <<"pressure", "read">>, <<"pressure", "write">>,
          <<"dye", "read">>, <<"dye", "write">>,
          <<"divergence", "texture">>, <<"curl", "texture">>}
    ELSE {<<"velocity", "read">>, <<"velocity", "write">>,
          <<"density", "read">>, <<"density", "write">>,
          <<"pressure", "read">>, <<"pressure", "write">>,
          <<"divergence", "texture">>}

Cleared == [src |-> "clear", at |-> 0, i |-> 0]
Stale == [src |-> "stale", at |-> 0, i |-> 0]

(* The label under which a texture is currently held, if any *)
Label(flds, t) ==
    IF t = Canvas THEN <<"canvas", "-">>
    ELSE IF t # NoTex /\ \E r \in DOMAIN flds : flds[r] = t
         THEN CHOOSE r \in DOMAIN flds : flds[r] = t
         ELSE <<"stale", "-">>

ContentOf(cont, t) == IF t \in DOMAIN cont THEN cont[t] ELSE Stale

----------------------------------------------------------------------------
(* The sampler uniforms each fragment shader declares *)

Programs == {"advect", "curl", "vorticity", "divergence", "pressure",
             "gradient", "splat", "display"}

Samplers(p) ==
    CASE p = "advect" -> {"uVelocity", "uSource"}
      [] p = "curl" -> {"uVelocity"}
      [] p = "vorticity" -> {"uVelocity", "uCurl"}
      [] p = "divergence" -> {"uVelocity"}
      [] p = "pressure" -> {"uPressure", "uDivergence"}
      [] p = "gradient" -> {"uVelocity", "uPressure"}
      [] p = "splat" -> {"uTarget"}
      [] p = "display" -> {"uTexture"}
      [] OTHER -> {}

SamplerSlots == UNION {{<<p, s>> : s \in Samplers(p)} : p \in Programs}

(* A fresh context: no program, unit 0 active, nothing bound, the default
   framebuffer, vertex array 0 disabled; freshly linked programs have every
   sampler at unit 0 *)
FreshUniforms == [s \in SamplerSlots |-> 0]

FreshGL ==
    [prog |-> "none", unit |-> 0, units |-> [u \in 0..1 |-> NoTex],
     uni |-> FreshUniforms, fb |-> Canvas, vp |-> <<0, 0>>, attrib |-> FALSE]

----------------------------------------------------------------------------
(* WebGL commands, in the order the source issues them *)

UseProgram(p) == [op |-> "useProgram", p |-> p]
Uniform1i(p, s, u) == [op |-> "uniform1i", p |-> p, s |-> s, u |-> u]
ActiveTexture(u) == [op |-> "activeTexture", u |-> u]
BindTexture(f, k) == [op |-> "bindTexture", ref |-> <<f, k>>]
BindFramebuffer(f, k) == [op |-> "bindFramebuffer", ref |-> <<f, k>>]
BindFramebufferNull == [op |-> "bindFramebuffer", ref |-> <<"canvas", "-">>]
ViewportTarget == [op |-> "viewportTarget"]
ViewportCanvas == [op |-> "viewportCanvas"]
DrawArrays == [op |-> "drawArrays"]
EnableVertexAttribArray == [op |-> "enableVertexAttribArray"]
Swap(f) == [op |-> "swap", f |-> f]
Mark(e) == [op |-> "mark", ev |-> e]
Scope(s) == [op |-> "scope", s |-> s]
NewGen == [op |-> "newGen"]
CreateTex(f, k, side, w, h) ==
    [op |-> "createFBO", ref |-> <<f, k>>, side |-> side, w |-> w, h |-> h]

----------------------------------------------------------------------------
(* Execution of one WebGL command on the machine
     m = [variant, fields, content, gl, canvas, presented, log, gen, at, scope,
          failed]
   failed: the programs that did not compile or link;
   at: the number of the callback being run; scope: the function of the
   source the command is issued from ("frame" for the body of update /
   animate, "init", "timer"). *)

DrawArraysOn(m) ==
    LET g == m.gl
        tgt == g.fb
        smp == [s \in Samplers(g.prog) |->
                  LET t == IF g.uni[<<g.prog, s>>] \in DOMAIN g.units
                           THEN g.units[g.uni[<<g.prog, s>>]] ELSE NoTex
                  IN [tex |-> t, l |-> Label(m.fields, t),
                      tag |-> ContentOf(m.content, t)]]
        new == [src |-> m.scope, at |-> m.at, i |-> Len(m.log) + 1]
        (* fragments are produced only with vertex array 0 enabled, and only
           into a target that has texels *)
        toCanvas == tgt = Canvas
        wrote == /\ g.attrib
                 /\ g.prog \in Programs
                 /\ (toCanvas \/ (tgt.w > 0 /\ tgt.h > 0 /\ tgt \in DOMAIN m.content))
        entry == [k |-> "draw", prog |-> g.prog, tgt |-> tgt,
                  tl |-> Label(m.fields, tgt), smp |-> smp,
                  out |-> IF wrote /\ ~toCanvas THEN new ELSE Stale,
                  wrote |-> wrote,
                  full |-> toCanvas \/ (g.vp[1] >= tgt.w /\ g.vp[2] >= tgt.h),
                  scope |-> m.scope, at |-> m.at]
    IN [m EXCEPT
          !.log = Append(@, entry),
          !.content = IF wrote /\ ~toCanvas THEN [@ EXCEPT ![tgt] = new] ELSE @,
          !.presented = IF wrote /\ toCanvas /\ g.prog = "display"
                        THEN smp["uTexture"].tag ELSE @]

CreateFBOOn(m, c) ==
    LET old == m.fields[c.ref]
        tex == [f |-> c.ref[1], side |-> c.side, gen |-> m.gen,
                w |-> c.w, h |-> c.h]
        keep == (DOMAIN m.content) \ {old}
    IN [m EXCEPT
          !.fields = [@ EXCEPT ![c.ref] = tex],
          (* texImage2D(..., null) allocates zero-filled storage *)
          !.content = [t \in keep \cup {tex} |->
                         IF t = tex THEN Cleared ELSE m.content[t]],
          (* createFBO leaves the new texture bound to the active unit and
             its framebuffer bound *)
          !.gl = [@ EXCEPT !.units = [@ EXCEPT ![m.gl.unit] = tex],
                           !.fb = tex]]

(* A swap that loses the read half *)
SwapOnCopiesWrite(m, f) ==
    [m EXCEPT
       !.fields = [@ EXCEPT ![<<f, "read">>] = m.fields[<<f, "write">>]],
       !.log = Append(@, [k |-> "swap", f |-> f])]

SwapOn(m, f) ==
    [m EXCEPT
       !.fields = [@ EXCEPT ![<<f, "read">>] = m.fields[<<f, "write">>],
                            ![<<f, "write">>] = m.fields[<<f, "read">>]],
       !.log = Append(@, [k |-> "swap", f |-> f])]

Exec(m, c) ==
    CASE c.op = "useProgram" ->
           (* a program that did not link is an INVALID_OPERATION and the
              current program stays *)
           IF c.p \in m.failed THEN m
           ELSE [m EXCEPT !.gl = [@ EXCEPT !.prog = c.p]]
      [] c.op = "uniform1i" ->
           (* a location of another program than the current one is an
              INVALID_OPERATION and sets nothing *)
           IF m.gl.prog = c.p /\ c.p \notin m.failed
           THEN [m EXCEPT !.gl = [@ EXCEPT !.uni = [@ EXCEPT ![<<c.p, c.s>>] = c.u]]]
           ELSE m
      [] c.op = "activeTexture" -> [m EXCEPT !.gl = [@ EXCEPT !.unit = c.u]]
      [] c.op = "bindTexture" ->
           [m EXCEPT !.gl = [@ EXCEPT !.units = [@ EXCEPT ![m.gl.unit] = m.fields[c.ref]]]]
      [] c.op = "bindFramebuffer" ->
           [m EXCEPT !.gl = [@ EXCEPT !.fb = IF c.ref[1] = "canvas" THEN Canvas
                                              ELSE m.fields[c.ref]]]
      [] c.op = "viewportTarget" ->
           [m EXCEPT !.gl = [@ EXCEPT !.vp = <<m.gl.fb.w, m.gl.fb.h>>]]
      [] c.op = "viewportCanvas" -> [m EXCEPT !.gl = [@ EXCEPT !.vp = m.canvas]]
      [] c.op = "enableVertexAttribArray" -> [m EXCEPT !.gl = [@ EXCEPT !.attrib = TRUE]]
      [] c.op = "drawArrays" -> DrawArraysOn(m)
      [] c.op = "swap" -> SwapOn(m, c.f)
      [] c.op = "mark" -> [m EXCEPT !.log = Append(@, [k |-> "mark", ev |-> c.ev])]
      [] c.op = "scope" -> [m EXCEPT !.scope = c.s]
      [] c.op = "createFBO" -> CreateFBOOn(m, c)
      [] c.op = "newGen" -> [m EXCEPT !.gen = @ + 1]

(* The commands cmds[lo..hi] in order.  The range is split in halves; the
   test on the first half's result makes it be computed before the second
   half starts, which keeps the evaluation shallow. *)
RECURSIVE RunRange(_, _, _, _)
RunRange(m, cmds, lo, hi) ==
    IF lo > hi THEN m
    ELSE IF lo = hi THEN Exec(m, cmds[lo])
    ELSE LET mid == (lo + hi) \div 2
             first == RunRange(m, cmds, lo, mid)
         IN IF first.gen >= 0 THEN RunRange(first, cmds, mid + 1, hi) ELSE first

Run(m, cmds) == RunRange(m, cmds, 1, Len(cmds))

(* A loop that leaves after its first round *)
RepeatUntilConverged(cmds, n) == IF n = 0 THEN <<>> ELSE cmds

RECURSIVE Repeat(_, _)
Repeat(cmds, n) == IF n = 0 THEN <<>> ELSE cmds \o Repeat(cmds, n - 1)


----------------------------------------------------------------------------
(* vortex_bg.js: the command sequences of its functions *)

(* blit(target): bind, viewport of the target, draw *)
BlitVortex(f, k) == <<BindFramebuffer(f, k), ViewportTarget, DrawArrays>>
BlitVortexNull == <<BindFramebufferNull, ViewportCanvas, DrawArrays>>

SplatFBONoSwap(target) ==
    <<UseProgram("splat"), Uniform1i("splat", "uTarget", 0), ActiveTexture(0),
      BindTexture(target, "read")>>
    \o BlitVortex(target, "write")

SplatFBO(target) ==
    <<UseProgram("splat"), Uniform1i("splat", "uTarget", 0), ActiveTexture(0),
      BindTexture(target, "read")>>
    \o BlitVortex(target, "write") \o <<Swap(target)>>

SplatVelocity == SplatFBO("velocity")
SplatDye == SplatFBO("dye")

(* splat(pointer) *)
SplatPointerVortex == <<Mark("pointer")>> \o SplatVelocity \o SplatDye

AddRandomSplats(count) ==
    Repeat(<<Mark("ambient")>> \o SplatVelocity \o SplatDye, count)

EmitRibbon == <<Mark("ribbon")>> \o SplatVelocity \o SplatDye

PressureSweepVortexFromWrite ==
    <<Uniform1i("pressure", "uPressure", 1), ActiveTexture(0),
      BindTexture("divergence", "texture"), ActiveTexture(1),
      BindTexture("pressure", "write")>>
    \o BlitVortex("pressure", "write") \o <<Swap("pressure")>>

PressureSweepVortex ==
    <<Uniform1i("pressure", "uPressure", 1), ActiveTexture(0),
      BindTexture("divergence", "texture"), ActiveTexture(1),
      BindTexture("pressure", "read")>>
    \o BlitVortex("pressure", "write") \o <<Swap("pressure")>>

StepVortex ==
    (* advect velocity *)
    <<UseProgram("advect"), Uniform1i("advect", "uVelocity", 0),
      Uniform1i("advect", "uSource", 1), ActiveTexture(0),
      BindTexture("velocity", "read"), ActiveTexture(1),
      BindTexture("velocity", "read")>>
    \o BlitVortex("velocity", "write") \o <<Swap("velocity")>>
    (* advect dye *)
    \o <<ActiveTexture(0), BindTexture("velocity", "read"), ActiveTexture(1),
         BindTexture("dye", "read")>>
    \o BlitVortex("dye", "write") \o <<Swap("dye")>>
    (* curl *)
    \o <<UseProgram("curl"), Uniform1i("curl", "uVelocity", 0), ActiveTexture(0),
         BindTexture("velocity", "read")>>
    \o BlitVortex("curl", "texture")
    (* vorticity confinement *)
    \o <<UseProgram("vorticity"), Uniform1i("vorticity", "uVelocity", 0),
         Uniform1i("vorticity", "uCurl", 1), ActiveTexture(0),
         BindTexture("velocity", "read"), ActiveTexture(1),
         BindTexture("curl", "texture")>>
    \o BlitVortex("velocity", "write") \o <<Swap("velocity")>>
    (* divergence *)
    \o <<UseProgram("divergence"), Uniform1i("divergence", "uVelocity", 0),
         ActiveTexture(0), BindTexture("velocity", "read")>>
    \o BlitVortex("divergence", "texture")
    (* pressure *)
    \o <<UseProgram("pressure"), Uniform1i("pressure", "uDivergence", 0)>>
    \o Repeat(PressureSweepVortex, PRESSURE_ITERATIONS_VORTEX)
    (* gradient subtract *)
    \o <<UseProgram("gradient"), Uniform1i("gradient", "uVelocity", 0),
         Uniform1i("gradient", "uPressure", 1), ActiveTexture(0),
         BindTexture("velocity", "read"), ActiveTexture(1),
         BindTexture("pressure", "read")>>
    \o BlitVortex("velocity", "write") \o <<Swap("velocity")>>

RenderVortex ==
    <<UseProgram("display"), Uniform1i("display", "uTexture", 0), ActiveTexture(0),
      BindTexture("dye", "read")>>
    \o BlitVortexNull

(* Math.floor(res * height / width); a zero width gives NaN or Infinity,
   which texImage2D takes as 0 *)
ScaledHeight(res, size) == IF size[1] = 0 THEN 0 ELSE (res * size[2]) \div size[1]

CreateDoubleFBO(f, w, h) ==
    <<CreateTex(f, "read", "a", w, h), CreateTex(f, "write", "b", w, h)>>

ResizeCanvasKeepsPressure(size) ==
    <<NewGen>>
    \o CreateDoubleFBO("velocity", SIM_RESOLUTION, ScaledHeight(SIM_RESOLUTION, size))
    \o CreateDoubleFBO("dye", DYE_RESOLUTION, ScaledHeight(DYE_RESOLUTION, size))
    \o <<CreateTex("divergence", "texture", "a", SIM_RESOLUTION,
                   ScaledHeight(SIM_RESOLUTION, size)),
         CreateTex("curl", "texture", "a", SIM_RESOLUTION,
                   ScaledHeight(SIM_RESOLUTION, size))>>

(* resizeCanvas, after canvas.width and canvas.height are set *)
ResizeCanvas(size) ==
    <<NewGen>>
    \o CreateDoubleFBO("velocity", SIM_RESOLUTION, ScaledHeight(SIM_RESOLUTION, size))
    \o CreateDoubleFBO("pressure", SIM_RESOLUTION, ScaledHeight(SIM_RESOLUTION, size))
    \o CreateDoubleFBO("dye", DYE_RESOLUTION, ScaledHeight(DYE_RESOLUTION, size))
    \o <<CreateTex("divergence", "texture", "a", SIM_RESOLUTION,
                   ScaledHeight(SIM_RESOLUTION, size)),
         CreateTex("curl", "texture", "a", SIM_RESOLUTION,
                   ScaledHeight(SIM_RESOLUTION, size))>>

(* initPrograms: the eight programs, then the quad on vertex array 0 *)
InitPrograms == <<EnableVertexAttribArray>>

----------------------------------------------------------------------------
(* fluid_sim.js and part_000 *)

(* blit(fbo): bind and draw; neither file sets a viewport here *)
BlitFluid(f, k) == <<BindFramebuffer(f, k), DrawArrays>>
BlitFluidNull == <<BindFramebufferNull, DrawArrays>>

ApplySplatFluidSim ==
    <<Mark("pointer"), UseProgram("splat"), ActiveTexture(0),
      BindTexture("velocity", "read"), Uniform1i("splat", "uTarget", 0)>>
    \o BlitFluid("velocity", "write") \o <<Swap("velocity")>>
    \o <<BindTexture("density", "read")>>
    \o BlitFluid("density", "write") \o <<Swap("density")>>

ApplySplatPart000 ==
    <<Mark("pointer"), UseProgram("splat"), Uniform1i("splat", "uTarget", 0),
      ActiveTexture(0), BindTexture("velocity", "read")>>
    \o BlitFluid("velocity", "write") \o <<Swap("velocity")>>
    \o <<BindTexture("density", "read")>>
    \o BlitFluid("density", "write") \o <<Swap("density")>>

PressureSweepFluidSimSwapsVelocity ==
    <<ActiveTexture(0), BindTexture("pressure", "read"),
      Uniform1i("pressure", "uPressure", 0)>>
    \o BlitFluid("pressure", "write") \o <<Swap("velocity")>>

PressureSweepFluidSim ==
    <<ActiveTexture(0), BindTexture("pressure", "read"),
      Uniform1i("pressure", "uPressure", 0)>>
    \o BlitFluid("pressure", "write") \o <<Swap("pressure")>>

StepFluidSim ==
    (* divergence *)
    <<UseProgram("divergence"), ActiveTexture(0), BindTexture("velocity", "read"),
      Uniform1i("divergence", "uVelocity", 0)>>
    \o BlitFluid("divergence", "texture")
    (* pressure solve *)
    \o <<UseProgram("pressure"), ActiveTexture(1),
         BindTexture("divergence", "texture"),
         Uniform1i("pressure", "uDivergence", 1)>>
    \o Repeat(PressureSweepFluidSim, PRESSURE_ITERATIONS_FLUID)
    (* subtract gradient *)
    \o <<UseProgram("gradient"), ActiveTexture(0), BindTexture("pressure", "read"),
         Uniform1i("gradient", "uPressure", 0), ActiveTexture(1),
         BindTexture("velocity", "read"), Uniform1i("gradient", "uVelocity", 1)>>
    \o BlitFluid("velocity", "write") \o <<Swap("velocity")>>
    (* advection (velocity) *)
    \o <<UseProgram("advect"), ActiveTexture(0), BindTexture("velocity", "read"),
         Uniform1i("advect", "uVelocity", 0), ActiveTexture(1),
         BindTexture("velocity", "read"), Uniform1i("advect", "uSource", 1)>>
    \o BlitFluid("velocity", "write") \o <<Swap("velocity")>>
    (* advection (density): only the active unit, 1, is rebound *)
    \o <<BindTexture("density", "read")>>
    \o BlitFluid("density", "write") \o <<Swap("density")>>

PressureSweepPart000 ==
    <<Uniform1i("pressure", "uPressure", 0), ActiveTexture(0),
      BindTexture("pressure", "read")>>
    \o BlitFluid("pressure", "write") \o <<Swap("pressure")>>

StepPart000 ==
    (* divergence *)
    <<UseProgram("divergence"), Uniform1i("divergence", "uVelocity", 0),
      ActiveTexture(0), BindTexture("velocity", "read")>>
    \o BlitFluid("divergence", "texture")
    (* pressure solve *)
    \o <<UseProgram("pressure"), Uniform1i("pressure", "uDivergence", 1),
         ActiveTexture(1), BindTexture("divergence", "texture")>>
    \o Repeat(PressureSweepPart000, PRESSURE_ITERATIONS_FLUID)
    (* gradient subtract *)
    \o <<UseProgram("gradient"), Uniform1i("gradient", "uPressure", 0),
         ActiveTexture(0), BindTexture("pressure", "read"),
         Uniform1i("gradient", "uVelocity", 1), ActiveTexture(1),
         BindTexture("velocity", "read")>>
    \o BlitFluid("velocity", "write") \o <<Swap("velocity")>>
    (* advection (velocity) *)
    \o <<UseProgram("advect"), Uniform1i("advect", "uVelocity", 0),
         ActiveTexture(0), BindTexture("velocity", "read"),
         Uniform1i("advect", "uSource", 1), ActiveTexture(1),
         BindTexture("velocity", "read")>>
    \o BlitFluid("velocity", "write") \o <<Swap("velocity")>>
    (* advection (density): only the active unit, 1, is rebound *)
    \o <<BindTexture("density", "read")>>
    \o BlitFluid("density", "write") \o <<Swap("density")>>

RenderFluidSim ==
    <<UseProgram("display"), ActiveTexture(0), BindTexture("density", "read"),
      Uniform1i("display", "uTexture", 0)>>
    \o BlitFluidNull

RenderPart000 ==
    <<UseProgram("display"), Uniform1i("display", "uTexture", 0), ActiveTexture(0),
      BindTexture("density", "read")>>
    \o BlitFluidNull

(* rebuildTextures / rebuildFBOs: every field at the canvas size *)
RebuildTextures(size) ==
    <<NewGen>>
    \o CreateDoubleFBO("velocity", size[1], size[2])
    \o CreateDoubleFBO("density", size[1], size[2])
    \o CreateDoubleFBO("pressure", size[1], size[2])
    \o <<CreateTex("divergence", "texture", "a", size[1], size[2])>>

ApplySplat(v) == IF v = "fluid_sim" THEN ApplySplatFluidSim ELSE ApplySplatPart000
StepFluid(v) == IF v = "fluid_sim" THEN StepFluidSim ELSE StepPart000
RenderFluid(v) == IF v = "fluid_sim" THEN RenderFluidSim ELSE RenderPart000

----------------------------------------------------------------------------
(* Numbers as JavaScript has them here: a number, undefined, or NaN *)

Num(n) == [k |-> "num", v |-> n]
Undefined == [k |-> "undefined", v |-> 0]
NaN == [k |-> "NaN", v |-> 0]

Min(a, b) == IF a <= b THEN a ELSE b

DtVortexUnclamped(e) == Num((e.v * 1000 * TIME_STEP_MS) \div TARGET_STEP_MS)

(* update: Math.min(0.033, (now - lastTime) / 1000) * (TIME_STEP / 0.016),
   in microseconds for e = now - lastTime in milliseconds *)
DtVortex(e) ==
    Num((Min(DT_CLAMP_MS, e.v) * 1000 * TIME_STEP_MS) \div TARGET_STEP_MS)

(* animate: (t - lastT) * 0.001, in microseconds for e = t - lastT; NaN when
   t or lastT is undefined *)
DtFluid(e) == IF e.k = "num" THEN Num(e.v * 1000) ELSE NaN

(* now - lastTime after d more milliseconds *)
Later(e, d) == IF e.k = "num" THEN Num(e.v + d) ELSE e

RibbonAdvanceNoWrap(rp, d) == rp + (d.v * RIBBON_RATE_PCT) \div 100

(* emitRibbon: (ribbonProgress + dt * 0.16) % 1, in units of 1/RIBBON_UNIT *)
RibbonAdvance(rp, d) == (rp + (d.v * RIBBON_RATE_PCT) \div 100) % RIBBON_UNIT

(* Math.sin(t) for t in [0, 2.9), t and the result in units of
   1/SINE_UNIT: the series up to t^11 / 11! in Horner form, kept within
   [-1, 1] as Math.sin is *)
SINE_UNIT == 10000
Sin(t) ==
    LET t2 == (t * t) \div SINE_UNIT
        p5 == SINE_UNIT - t2 \div 110
        p4 == SINE_UNIT - ((t2 * p5) \div SINE_UNIT) \div 72
        p3 == SINE_UNIT - ((t2 * p4) \div SINE_UNIT) \div 42
        p2 == SINE_UNIT - ((t2 * p3) \div SINE_UNIT) \div 20
        p1 == SINE_UNIT - ((t2 * p2) \div SINE_UNIT) \div 6
        s == (t * p1) \div SINE_UNIT
    IN IF s > SINE_UNIT THEN SINE_UNIT ELSE IF s < -SINE_UNIT THEN -SINE_UNIT ELSE s

(* emitRibbon: x = 0.05 + ribbonProgress * 0.8 and
   y = 0.24 + Math.sin(ribbonProgress * 2.9) * 0.1, in units of 1/RIBBON_UNIT *)
RibbonX(rp) == 50000 + (rp * 8) \div 10
RibbonY(rp) == 240000 + Sin((rp * 29) \div 1000) * (RIBBON_UNIT \div (10 * SINE_UNIT))

----------------------------------------------------------------------------
(* The machine a callback runs on, and its write-back *)

(* The size of a canvas element that was never sized: the HTML default *)
DefaultCanvas == <<300, 150>>

NoContent == [t \in {} |-> Cleared]
NoneTag == [src |-> "none", at |-> 0, i |-> 0]

Machine(scope, at) ==
    [variant |-> variant, fields |-> fields, content |-> content, gl |-> gl,
     canvas |-> canvas, presented |-> presented, log |-> <<>>, gen |-> gen,
     at |-> at, scope |-> scope, failed |-> failedKernels]

SetMachine(m, h) ==
    /\ handler' = h
    /\ fields' = m.fields
    /\ content' = m.content
    /\ gl' = m.gl
    /\ canvas' = m.canvas
    /\ presented' = m.presented
    /\ log' = m.log
    /\ gen' = m.gen

KeepMachine == UNCHANGED <<fields, content, gl, canvas, presented, log, gen, handler>>

IsSweep(e) == e.k = "draw" /\ e.prog = "pressure"
Sweeps(l) == SelectSeq(l, IsSweep)

(* What the last Jacobi sweep of a callback's passes wrote *)
LastSweepWrote(l) ==
    LET sw == Sweeps(l)
    IN IF sw # <<>> /\ sw[Len(sw)].wrote THEN sw[Len(sw)].out ELSE NoneTag

HasPointerSplat(l) == \E i \in 1..Len(l) : l[i] = [k |-> "mark", ev |-> "pointer"]

(* History kept for the properties: what the last Jacobi sweep of the last
   Running frame wrote (none after a rebuild) *)
HistAfterFrame(l) == [carry |-> LastSweepWrote(l)]

HistAfterRebuild == [carry |-> NoneTag]

(* No texel values are followed *)
NoData == [kind |-> "none"]

----------------------------------------------------------------------------
(* The state after the scripts are loaded *)

Init ==
    /\ variant \in Variants
    /\ webgl2 \in BOOLEAN
    /\ initialized = FALSE
    /\ active = FALSE
    /\ loops = 0
    /\ timers = 0
    /\ listeners = 0
    /\ client \in Sizes
    /\ canvas = DefaultCanvas
    /\ fields = [r \in Refs(variant) |-> NoTex]
    /\ content = NoContent
    /\ gl = FreshGL
    /\ pointer = [down |-> FALSE, moved |-> FALSE]
    /\ elapsed = Num(0)
    /\ ribbonProgress = 0
    /\ presented = NoneTag
    /\ log = <<>>
    /\ handler = "load"
    /\ dt = Num(0)
    /\ events = 0
    /\ gen = 0
    /\ hist = [carry |-> NoneTag]
    /\ failedKernels = {}
    /\ data = NoData

(* The kernels the driver may reject in compileShader / linkProgram *)
KernelFailures == {{"pressure"}, {"advect"}}

(* The state after the scripts are loaded on a platform that gives a context
   and rejects some kernel *)
InitKernelFailure ==
    /\ variant \in Variants
    /\ webgl2 = TRUE
    /\ initialized = FALSE
    /\ active = FALSE
    /\ loops = 0
    /\ timers = 0
    /\ listeners = 0
    /\ client \in Sizes
    /\ canvas = DefaultCanvas
    /\ fields = [r \in Refs(variant) |-> NoTex]
    /\ content = NoContent
    /\ gl = FreshGL
    /\ pointer = [down |-> FALSE, moved |-> FALSE]
    /\ elapsed = Num(0)
    /\ ribbonProgress = 0
    /\ presented = NoneTag
    /\ log = <<>>
    /\ handler = "load"
    /\ dt = Num(0)
    /\ events = 0
    /\ gen = 0
    /\ hist = [carry |-> NoneTag]
    /\ failedKernels \in KernelFailures
    /\ data = NoData

----------------------------------------------------------------------------
(* What the frame callbacks share *)

NeverIdle == FALSE

(* if (!window.fluidActive) return;  /  if (!active) return; *)
Idle == ~active

ContextAssumed == FALSE

(* if (!gl) { console.warn(...); return; }  /  if (!gl) { alert(...); return; } *)
NoContext == ~webgl2

KeepMove(p) == p

(* p.moved = false;  /  pointer.moved = false; *)
ConsumeMove(p) == [p EXCEPT !.moved = FALSE]

----------------------------------------------------------------------------
(* vortex_bg.js *)

(* initFluidBackground without the test of window.fluidInitialized *)
InitFluidBackgroundUnguarded ==
    /\ variant = "vortex"
    /\ events < MaxEvents
    /\ initialized' = TRUE
    /\ UNCHANGED <<variant, webgl2, failedKernels, data, active, client, pointer, elapsed,
                   ribbonProgress, dt>>
    /\ IF NoContext
       THEN /\ KeepMachine
            /\ UNCHANGED <<loops, timers, listeners, hist, events>>
       ELSE LET m0 == [Machine("init", events + 1) EXCEPT
                         !.gl = [FreshGL EXCEPT !.vp = canvas],
                         !.canvas = client]
                m1 == Run(m0, InitPrograms \o ResizeCanvas(client)
                              \o AddRandomSplats(INITIAL_SPLATS))
            IN /\ SetMachine(m1, "init")
               /\ events' = events + 1
               /\ listeners' = 1
               /\ loops' = loops + 1
               /\ timers' = timers + 1
               /\ hist' = HistAfterRebuild

(* window.initFluidBackground *)
InitFluidBackground ==
    /\ variant = "vortex"
    /\ events < MaxEvents
    /\ initialized' = TRUE
    /\ UNCHANGED <<variant, webgl2, failedKernels, data, active, client, pointer, elapsed,
                   ribbonProgress, dt>>
    /\ IF initialized \/ NoContext
       THEN /\ KeepMachine
            /\ UNCHANGED <<loops, timers, listeners, hist, events>>
       ELSE LET m0 == [Machine("init", events + 1) EXCEPT
                         !.gl = [FreshGL EXCEPT !.vp = canvas],
                         !.canvas = client]
                m1 == Run(m0, InitPrograms \o ResizeCanvas(client)
                              \o AddRandomSplats(INITIAL_SPLATS))
            IN /\ SetMachine(m1, "init")
               /\ events' = events + 1
               /\ listeners' = 1
               /\ loops' = loops + 1
               /\ timers' = timers + 1
               /\ hist' = HistAfterRebuild

UpdateCmdsStepFirst(ptr) ==
    <<Scope("frame")>>
    \o StepVortex
    \o (IF ptr.moved THEN SplatPointerVortex ELSE <<>>)
    \o EmitRibbon \o RenderVortex

UpdateCmds(ptr) ==
    <<Scope("frame")>>
    \o (IF ptr.moved THEN SplatPointerVortex ELSE <<>>)
    \o EmitRibbon \o StepVortex \o RenderVortex

(* update, the requestAnimationFrame callback; d is the time since the
   previous callback *)
Update(d) ==
    /\ variant = "vortex"
    /\ loops > 0
    /\ events < MaxEvents
    /\ events' = events + 1
    /\ UNCHANGED <<variant, webgl2, failedKernels, data, initialized, active, loops, timers,
                   listeners, client>>
    /\ IF Idle
       THEN /\ elapsed' = Later(elapsed, d)
            /\ KeepMachine
            /\ UNCHANGED <<pointer, ribbonProgress, dt, hist>>
       ELSE LET d1 == DtVortex(Later(elapsed, d))
                m1 == Run(Machine("frame", events + 1), UpdateCmds(pointer))
            IN /\ dt' = d1
               /\ elapsed' = Num(0)
               /\ pointer' = ConsumeMove(pointer)
               /\ ribbonProgress' = RibbonAdvance(ribbonProgress, d1)
               /\ SetMachine(m1, "frame")
               /\ hist' = HistAfterFrame(m1.log)

(* the setInterval callback of startAmbientSplats *)
AmbientTimer ==
    /\ variant = "vortex"
    /\ timers > 0
    /\ events < MaxEvents
    /\ events' = events + 1
    /\ UNCHANGED <<variant, webgl2, failedKernels, data, initialized, active, loops, timers,
                   listeners, client, pointer, elapsed, ribbonProgress,
                   dt, hist>>
    /\ IF ~active
       THEN KeepMachine
       ELSE SetMachine(Run(Machine("timer", events + 1),
                           AddRandomSplats(AMBIENT_SPLATS)), "timer")

----------------------------------------------------------------------------
(* fluid_sim.js and part_000 *)

(* A frame body in which the fields are rebuilt between step and render *)
AnimateCmdsRebuildsMidFrame(v, ptr) ==
    <<Scope("frame")>>
    \o (IF ptr.down /\ ptr.moved THEN ApplySplat(v) ELSE <<>>)
    \o StepFluid(v) \o RebuildTextures(DefaultCanvas) \o RenderFluid(v)

AnimateCmds(v, ptr) ==
    <<Scope("frame")>>
    \o (IF ptr.down /\ ptr.moved THEN ApplySplat(v) ELSE <<>>)
    \o StepFluid(v) \o RenderFluid(v)

(* What init does on the context before it calls animate() *)
InitSetup(v, size) ==
    (IF v = "fluid_sim" THEN <<EnableVertexAttribArray>> ELSE <<>>)
    \o RebuildTextures(size)
    \o (IF v = "fluid_sim" THEN <<ViewportCanvas>> ELSE <<>>)

(* init(canvas), with the animate() call that ends it; animate gets no
   timestamp there, so t - lastT is NaN and lastT becomes undefined *)
InitFluidSim ==
    /\ IsFluidSim(variant)
    /\ events < MaxEvents
    /\ events' = events + 1
    /\ UNCHANGED <<variant, webgl2, failedKernels, data, initialized, active, client,
                   ribbonProgress, timers>>
    /\ IF NoContext
       THEN /\ canvas' = client
            /\ UNCHANGED <<fields, content, gl, presented, log, gen, handler,
                           loops, listeners, pointer, elapsed, dt, hist>>
       ELSE LET g0 == IF loops = 0
                      THEN [FreshGL EXCEPT !.vp = client]
                      ELSE [gl EXCEPT !.prog = "none", !.uni = FreshUniforms]
                m0 == [Machine("init", events + 1) EXCEPT
                         !.gl = g0, !.canvas = client]
                m1 == Run(m0, InitSetup(variant, client)
                              \o (IF Idle THEN <<>>
                                  ELSE AnimateCmds(variant, pointer)))
            IN /\ SetMachine(m1, "init")
               /\ listeners' = IF variant = "fluid_sim" THEN listeners + 1 ELSE 1
               /\ loops' = loops + 1
               /\ IF ~Idle
                  THEN /\ dt' = DtFluid(Undefined)
                       /\ elapsed' = Undefined
                       /\ pointer' = ConsumeMove(pointer)
                       /\ hist' = HistAfterFrame(m1.log)
                  ELSE /\ hist' = HistAfterRebuild
                       /\ UNCHANGED <<dt, elapsed, pointer>>

(* animate(t), the requestAnimationFrame callback; d is the time since the
   previous callback *)
Animate(d) ==
    /\ IsFluidSim(variant)
    /\ loops > 0
    /\ events < MaxEvents
    /\ events' = events + 1
    /\ UNCHANGED <<variant, webgl2, failedKernels, data, initialized, active, loops, timers,
                   listeners, client, ribbonProgress>>
    /\ IF Idle
       THEN /\ elapsed' = Later(elapsed, d)
            /\ KeepMachine
            /\ UNCHANGED <<pointer, dt, hist>>
       ELSE LET m1 == Run(Machine("frame", events + 1), AnimateCmds(variant, pointer))
            IN /\ dt' = DtFluid(Later(elapsed, d))
               /\ elapsed' = Num(0)
               /\ pointer' = ConsumeMove(pointer)
               /\ SetMachine(m1, "frame")
               /\ hist' = HistAfterFrame(m1.log)

----------------------------------------------------------------------------
(* Callbacks of every variant *)

ResizeHandler(v, size) ==
    CASE v = "vortex" -> ResizeCanvas(size)
      [] v = "fluid_sim" -> <<ViewportCanvas>> \o RebuildTextures(size)
      [] v = "part_000" -> RebuildTextures(size)

(* The window is resized to size; each registered resize listener runs.
   Before init no listener is registered, and the size init finds is the
   initial client size. *)
Resize(size) ==
    /\ size \in Sizes
    /\ size # client
    /\ listeners > 0
    /\ events < MaxEvents
    /\ events' = events + 1
    /\ client' = size
    /\ UNCHANGED <<variant, webgl2, failedKernels, data, initialized, active, loops, timers,
                   listeners, pointer, elapsed, ribbonProgress, dt>>
    /\ SetMachine(Run([Machine("resize", events + 1) EXCEPT !.canvas = size],
                      Repeat(ResizeHandler(variant, size), listeners)),
                  "resize")
    /\ hist' = HistAfterRebuild

(* pointerdown (setPointer(p, e, true)) / mousedown *)
PointerDown ==
    /\ listeners > 0
    /\ pointer' = IF variant = "vortex" THEN [down |-> TRUE, moved |-> TRUE]
                  ELSE [pointer EXCEPT !.down = TRUE]
    /\ KeepMachine
    /\ UNCHANGED <<variant, webgl2, failedKernels, data, initialized, active, loops, timers,
                   listeners, client, elapsed, ribbonProgress, dt,
                   events, hist>>

(* pointermove (setPointer(p, e, p.down)) / mousemove *)
PointerMove ==
    /\ listeners > 0
    /\ pointer' = [pointer EXCEPT !.moved = TRUE]
    /\ KeepMachine
    /\ UNCHANGED <<variant, webgl2, failedKernels, data, initialized, active, loops, timers,
                   listeners, client, elapsed, ribbonProgress, dt,
                   events, hist>>

(* pointerup / mouseup *)
PointerUp ==
    /\ listeners > 0
    /\ pointer' = [pointer EXCEPT !.down = FALSE]
    /\ KeepMachine
    /\ UNCHANGED <<variant, webgl2, failedKernels, data, initialized, active, loops, timers,
                   listeners, client, elapsed, ribbonProgress, dt,
                   events, hist>>

(* enable() / window.fluidActive = true *)
Enable ==
    /\ active' = TRUE
    /\ KeepMachine
    /\ UNCHANGED <<variant, webgl2, failedKernels, data, initialized, loops, timers, listeners,
                   client, pointer, elapsed, ribbonProgress, dt, events,
                   hist>>

DisableRestartsTimer ==
    /\ active' = FALSE
    /\ elapsed' = Num(0)
    /\ KeepMachine
    /\ UNCHANGED <<variant, webgl2, failedKernels, data, initialized, loops, timers, listeners,
                   client, pointer, ribbonProgress, dt, events, hist>>

(* disable() / window.fluidActive = false *)
Disable ==
    /\ active' = FALSE
    /\ KeepMachine
    /\ UNCHANGED <<variant, webgl2, failedKernels, data, initialized, loops, timers, listeners,
                   client, pointer, elapsed, ribbonProgress, dt, events,
                   hist>>

Next ==
    \/ InitFluidBackground
    \/ \E d \in Deltas : Update(d)
    \/ AmbientTimer
    \/ InitFluidSim
    \/ \E d \in Deltas : Animate(d)
    \/ \E size \in Sizes : Resize(size)
    \/ PointerDown
    \/ PointerMove
    \/ PointerUp
    \/ Enable
    \/ Disable

Spec == Init /\ [][Next]_vars

SpecKernelFailure == InitKernelFailure /\ [][Next]_vars

----------------------------------------------------------------------------
(* Texel values.  A value is an integer in units of 2^-13; what a shader
   computes is a fraction n/d of such integers.  The shaders' own highp
   arithmetic is taken as exact; the 16-bit texture it is written to is
   not.  data holds the texel values of one texture-level run: a value packed
   and unpacked, a uniform velocity field advected, a velocity field
   projected, or a pressure field relaxed. *)

(* 1.0 and 0.5 *)
ONE == 8192
HALF == 4096

(* gl.HALF_FLOAT: 11 significant bits *)
HALF_FLOAT_SIGNIFICAND == 2048

(* config.VELOCITY_DISSIPATION, in thousandths *)
VELOCITY_DISSIPATION_VORTEX == 994
VELOCITY_DISSIPATION_FLUID == 990
PER_MILLE == 1000

VELOCITY_DISSIPATION(v) ==
    IF v = "vortex" THEN VELOCITY_DISSIPATION_VORTEX ELSE VELOCITY_DISSIPATION_FLUID

(* config.DYE_DISSIPATION, in ten-thousandths, and config.DENSITY_DISSIPATION,
   in thousandths *)
DYE_DISSIPATION_VORTEX == 9992
PER_TEN_THOUSAND == 10000
DENSITY_DISSIPATION_FLUID == 980

(* The dissipation of the colour field, as <<numerator, denominator>> *)
DYE_DISSIPATION(v) ==
    IF v = "vortex" THEN <<DYE_DISSIPATION_VORTEX, PER_TEN_THOUSAND>>
    ELSE <<DENSITY_DISSIPATION_FLUID, PER_MILLE>>

Abs(x) == IF x < 0 THEN -x ELSE x

(* The distance between neighbouring half floats of magnitude a *)
RECURSIVE HalfFloatStep(_)
HalfFloatStep(a) ==
    IF a < HALF_FLOAT_SIGNIFICAND THEN 1 ELSE 2 * HalfFloatStep(a \div 2)

(* n/d >= 0 to the nearest multiple of s, a tie to the even multiple *)
RoundToEven(n, d, s) ==
    LET q == n \div (d * s)
        rest == n - q * d * s
    IN IF 2 * rest > d * s \/ (2 * rest = d * s /\ q % 2 = 1)
       THEN (q + 1) * s ELSE q * s

(* The value n/d as an RGBA16F / R16F texture keeps it: the nearest half
   float.  Exact for every integer and for every fraction of magnitude 2^-3
   and more; the inputs below keep the computed values there. *)
Store(n, d) ==
    LET r == RoundToEven(Abs(n), d, HalfFloatStep(Abs(n) \div d))
    IN IF n < 0 THEN -r ELSE r

DecodeNoOffset(c) == c * 2

(* vec2 decode(vec2 v) { return v * 2.0 - 1.0; } *)
Decode(c) == c * 2 - ONE

(* float decodeScalar(vec4 c) { return (c.r - 0.5) * 2.0; } *)
DecodeScalar(c) == (c - HALF) * 2

(* encode(v) = v * 0.5 + 0.5 of v = n/d, as written to the texture *)
Encode(n, d) == Store(n + d * ONE, 2 * d)

(* Only the vorticity variant packs signed values *)
Encoded(v) == v = "vortex"

(* What a kernel of variant v reads from a stored component or scalar *)
ReadSigned(v, c) == IF Encoded(v) THEN Decode(c) ELSE c
ReadScalar(v, c) == IF Encoded(v) THEN DecodeScalar(c) ELSE c

(* What a kernel of variant v writes for the signed value n/d *)
WriteSigned(v, n, d) == IF Encoded(v) THEN Encode(n, d) ELSE Store(n, d)

(* The texels of a field; neighbours are sampled with CLAMP_TO_EDGE *)
GridSize == <<2, 2>>
Texels == (0..(GridSize[1] - 1)) \X (0..(GridSize[2] - 1))

Clamp(i, n) == IF i < 0 THEN 0 ELSE IF i > n - 1 THEN n - 1 ELSE i
At(g, x, y) == g[<<Clamp(x, GridSize[1]), Clamp(y, GridSize[2])>>]
TexL(g, t) == At(g, t[1] - 1, t[2])
TexR(g, t) == At(g, t[1] + 1, t[2])
TexB(g, t) == At(g, t[1], t[2] - 1)
TexT(g, t) == At(g, t[1], t[2] + 1)

(* texImage2D(..., null): every component 0 *)
ClearedScalar == [t \in Texels |-> 0]

(* advect on a field that has the same value c at every texel: whatever
   coord is, texture2D(uSource, coord) is c, and the output is
   c * dissipation *)
AdvectValue(v, c) == Store(c * VELOCITY_DISSIPATION(v), PER_MILLE)

(* advect: the texel that coord = vUv - dt * vel * texelSize falls in, for a
   velocity of whole texels per dt; the runs keep the velocity at rest *)
AdvectCoord(v, vel, t) ==
    <<t[1] - ReadSigned(v, vel[t][1]) \div ONE,
      t[2] - ReadSigned(v, vel[t][2]) \div ONE>>

DyeAdvectValueUnscaled(v, c) == c

(* advect on dye / density: texture2D(uSource, coord) * dissipation, as the
   texture keeps it; the colour is stored as it is in every variant *)
DyeAdvectValue(v, c) == Store(c * DYE_DISSIPATION(v)[1], DYE_DISSIPATION(v)[2])

(* One advect pass on the dye / density field *)
AdvectDyeField(v, vel, dye) ==
    [t \in Texels |->
        LET coord == AdvectCoord(v, vel, t)
        IN DyeAdvectValue(v, At(dye, coord[1], coord[2]))]

(* divergence: (R.x - L.x + T.y - B.y) * 0.5 *)
DivergenceValue(v, vel, t) ==
    WriteSigned(v, ReadSigned(v, TexR(vel, t)[1]) - ReadSigned(v, TexL(vel, t)[1])
                   + ReadSigned(v, TexT(vel, t)[2]) - ReadSigned(v, TexB(vel, t)[2]),
                2)

PressureValueAddsDivergence(v, p, div, t) ==
    ReadScalar(v, TexL(p, t)) + ReadScalar(v, TexR(p, t))
    + ReadScalar(v, TexB(p, t)) + ReadScalar(v, TexT(p, t))
    + ReadScalar(v, div[t])

(* pressure: L + R + B + T - div, the value before the * 0.25 *)
PressureValue(v, p, div, t) ==
    ReadScalar(v, TexL(p, t)) + ReadScalar(v, TexR(p, t))
    + ReadScalar(v, TexB(p, t)) + ReadScalar(v, TexT(p, t))
    - ReadScalar(v, div[t])

(* One Jacobi sweep over the field *)
PressureSweepOf(v, p, div) ==
    [t \in Texels |-> WriteSigned(v, PressureValue(v, p, div, t), 4)]

(* gradient subtract: vel - vec2(R - L, T - B) * 0.5 in vortex_bg.js,
   vel - vec2(R - L, T - B) in fluid_sim.js and part_000 *)
GradientSubtractValue(v, vel, p, t) ==
    LET gx == ReadScalar(v, TexR(p, t)) - ReadScalar(v, TexL(p, t))
        gy == ReadScalar(v, TexT(p, t)) - ReadScalar(v, TexB(p, t))
    IN IF Encoded(v)
       THEN <<WriteSigned(v, 2 * ReadSigned(v, vel[t][1]) - gx, 2),
              WriteSigned(v, 2 * ReadSigned(v, vel[t][2]) - gy, 2)>>
       ELSE <<WriteSigned(v, vel[t][1] - gx, 1), WriteSigned(v, vel[t][2] - gy, 1)>>

(* The inputs of the runs, as stored values *)
MaxSweeps == 3
MaxAdvects == 3

(* One channel of a uniform colour *)
DyeSeeds == {ONE, HALF + 2048, HALF, 2048}

(* The velocity field of a fluid at rest, as stored *)
RestVelocity(v) == [t \in Texels |-> <<WriteSigned(v, 0, 1), WriteSigned(v, 0, 1)>>]

(* Values of [-1,1] in steps of 2^-12, so that encode(v) is an integer *)
CodecInputs == {x \in (-ONE)..ONE : x % 256 \in {0, 2, 4, 8}}

VelocityInputs(v) ==
    IF Encoded(v) THEN {HALF - 1024, HALF, HALF + 2048} ELSE {-2048, 0, 4096}

PressureInputs(v) == IF Encoded(v) THEN {HALF - 2, HALF + 4} ELSE {ONE, ONE + 16}

DivergenceInputs(v) == IF Encoded(v) THEN {HALF - 16, HALF} ELSE {8, 10}

(* Velocity fields whose x component depends on the row only and whose y
   component on the column only: the divergence kernel gives 0 at every
   texel *)
DivergenceFreeFields(v) ==
    {[t \in Texels |-> <<a[t[2]], b[t[1]]>>] :
        a \in [0..(GridSize[2] - 1) -> VelocityInputs(v)],
        b \in [0..(GridSize[1] - 1) -> VelocityInputs(v)]}

(* Velocity fields with the same value at every texel *)
UniformVelocityFields(v) ==
    {[t \in Texels |-> <<x, y>>] : x \in VelocityInputs(v), y \in VelocityInputs(v)}

(* Values of ribbonProgress: the start, where the sine peaks, and the last
   values before the wrap; the dt of a stalled, an ordinary and a clamped
   frame *)
RibbonInputs == {0, 541700, 996700, 999999}
RibbonDts == {DtVortex(Num(d)) : d \in Deltas \cup {0}}

KernelInputs(v) ==
    (IF Encoded(v)
     THEN {[kind |-> "codec", stage |-> "value", v |-> x, c |-> 0, out |-> 0,
            outScalar |-> 0] : x \in CodecInputs}
     ELSE {})
    \cup {[kind |-> "advect", stage |-> "start", c0 |-> c, c |-> c] :
             c \in VelocityInputs(v)}
    \cup {[kind |-> "projection", stage |-> "start", vel0 |-> f, vel |-> f,
           div |-> ClearedScalar, p |-> ClearedScalar, n |-> 0] :
             f \in DivergenceFreeFields(v)}
    \cup {[kind |-> "jacobi", stage |-> "pressure", div |-> d, p |-> q, n |-> 0] :
             d \in [Texels -> DivergenceInputs(v)],
             q \in [Texels -> PressureInputs(v)]}
    \cup {[kind |-> "gradient", stage |-> "solved", vel0 |-> f, vel |-> f, p |-> q] :
             f \in UniformVelocityFields(v),
             q \in [Texels -> PressureInputs(v)]}
    \cup (IF v = "vortex"
          THEN {[kind |-> "ribbon", stage |-> "start", rp0 |-> r, rp |-> r,
                 dt |-> d, x |-> 0, y |-> 0] :
                   r \in RibbonInputs, d \in RibbonDts}
          ELSE {})
    \cup {[kind |-> "dye", stage |-> "seeded", seed |-> c, vel |-> RestVelocity(v),
           dye0 |-> [t \in Texels |-> c], dye |-> [t \in Texels |-> c], n |-> 0] :
             c \in DyeSeeds}

InitKernels ==
    /\ variant \in Variants
    /\ webgl2 = TRUE
    /\ initialized = FALSE
    /\ active = FALSE
    /\ loops = 0
    /\ timers = 0
    /\ listeners = 0
    /\ client = <<4, 2>>
    /\ canvas = DefaultCanvas
    /\ fields = [r \in Refs(variant) |-> NoTex]
    /\ content = NoContent
    /\ gl = FreshGL
    /\ pointer = [down |-> FALSE, moved |-> FALSE]
    /\ elapsed = Num(0)
    /\ ribbonProgress = 0
    /\ presented = NoneTag
    /\ log = <<>>
    /\ handler = "load"
    /\ dt = Num(0)
    /\ events = 0
    /\ gen = 0
    /\ hist = [carry |-> NoneTag]
    /\ failedKernels = {}
    /\ data \in KernelInputs(variant)

solver == <<variant, webgl2, initialized, active, loops, timers, listeners,
            client, canvas, fields, content, gl, pointer, elapsed,
            ribbonProgress, presented, log, handler, dt, events, gen,
            hist, failedKernels>>

(* A kernel writes encode(v) to its target *)
EncodeWrite ==
    /\ data.kind = "codec"
    /\ data.stage = "value"
    /\ data' = [data EXCEPT !.stage = "stored", !.c = Encode(data.v, 1)]
    /\ UNCHANGED solver

(* A later kernel samples the texel and decodes it *)
DecodeRead ==
    /\ data.kind = "codec"
    /\ data.stage = "stored"
    /\ data' = [data EXCEPT !.stage = "decoded", !.out = Decode(data.c),
                            !.outScalar = DecodeScalar(data.c)]
    /\ UNCHANGED solver

(* step: the advect pass on the velocity field *)
AdvectVelocity ==
    /\ data.kind = "advect"
    /\ data.stage = "start"
    /\ data' = [data EXCEPT !.stage = "advected", !.c = AdvectValue(variant, data.c)]
    /\ UNCHANGED solver

(* step: the advect pass on dye / density, with no splat in the frame *)
AdvectDye ==
    /\ data.kind = "dye"
    /\ data.n < MaxAdvects
    /\ data' = [data EXCEPT !.stage = "advected", !.n = @ + 1, !.dye0 = data.dye,
                            !.dye = AdvectDyeField(variant, data.vel, data.dye)]
    /\ UNCHANGED solver

(* emitRibbon(dt), up to the point it hands to the two splats *)
EmitRibbonPoint ==
    /\ data.kind = "ribbon"
    /\ data.stage = "start"
    /\ LET rp == RibbonAdvance(data.rp, data.dt)
       IN data' = [data EXCEPT !.stage = "emitted", !.rp = rp,
                               !.x = RibbonX(rp), !.y = RibbonY(rp)]
    /\ UNCHANGED solver

(* step: the divergence pass *)
DivergencePass ==
    /\ data.kind = "projection"
    /\ data.stage = "start"
    /\ data' = [data EXCEPT
                  !.stage = "pressure",
                  !.div = [t \in Texels |-> DivergenceValue(variant, data.vel, t)]]
    /\ UNCHANGED solver

(* The sweeps a run makes: the whole solve of step, or the bound *)
SweepLimit == IF data.kind = "projection" THEN PRESSURE_ITERATIONS(variant) ELSE MaxSweeps

(* step: one pass of the pressure loop and the swap *)
PressureSweep ==
    /\ data.kind \in {"projection", "jacobi"}
    /\ data.stage = "pressure"
    /\ data.n < SweepLimit
    /\ data' = [data EXCEPT !.n = @ + 1,
                            !.p = PressureSweepOf(variant, data.p, data.div)]
    /\ UNCHANGED solver

(* step: the gradient subtract pass, after the last sweep *)
GradientSubtractPass ==
    /\ \/ /\ data.kind = "projection"
          /\ data.stage = "pressure"
          /\ data.n = PRESSURE_ITERATIONS(variant)
       \/ /\ data.kind = "gradient"
          /\ data.stage = "solved"
    /\ data' = [data EXCEPT
                  !.stage = "done",
                  !.vel = [t \in Texels |->
                             GradientSubtractValue(variant, data.vel, data.p, t)]]
    /\ UNCHANGED solver

NextKernels ==
    \/ EncodeWrite
    \/ DecodeRead
    \/ AdvectVelocity
    \/ AdvectDye
    \/ EmitRibbonPoint
    \/ DivergencePass
    \/ PressureSweep
    \/ GradientSubtractPass

SpecKernels == InitKernels /\ [][NextKernels]_vars

----------------------------------------------------------------------------
(* Properties.  log holds the passes, swaps and forcing events of the last
   callback that issued WebGL calls; handler names that callback. *)

IsDraw(e) == e.k = "draw"
IsStage(e) == e.k # "swap"
IsHalf(l) == l[2] \in {"read", "write"}

(* A Running frame callback is taken: update / animate with the flag set *)
FrameRan == active /\ events' = events + 1 /\ handler' = "frame"

(* The body of the frame callback has run, from the frame loop or from the
   animate() call that ends init *)
FrameBodyRan == active /\ events' = events + 1 /\ handler' \in {"frame", "init"}

(* C1: in every pass of every variant the render target is none of the
   textures the program samples; a target that is a half of a
   double-buffered field is its write half, and every sampled texture that
   is a half of a double-buffered field is its read half. *)
C1_ReadWriteDiscipline ==
    \A i \in 1..Len(log) :
        IsDraw(log[i]) =>
            /\ \A s \in DOMAIN log[i].smp : log[i].smp[s].tex # log[i].tgt
            /\ IsHalf(log[i].tl) => log[i].tl[2] = "write"
            /\ \A s \in DOMAIN log[i].smp :
                   IsHalf(log[i].smp[s].l) => log[i].smp[s].l[2] = "read"

(* The part of C1 that is about the render target alone *)
TargetNeverSampled ==
    \A i \in 1..Len(log) :
        IsDraw(log[i]) =>
            /\ \A s \in DOMAIN log[i].smp : log[i].smp[s].tex # log[i].tgt
            /\ IsHalf(log[i].tl) => log[i].tl[2] = "write"

StageOf(e) == IF IsDraw(e) THEN <<e.prog, e.tl[1]>> ELSE <<"event", e.ev>>

Stages(l) ==
    LET st == SelectSeq(l, IsStage)
    IN [i \in 1..Len(st) |-> StageOf(st[i])]

SplatStages(ev) == <<<<"event", ev>>, <<"splat", "velocity">>, <<"splat", "dye">>>>

PipelineVortex ==
    <<<<"advect", "velocity">>, <<"advect", "dye">>, <<"curl", "curl">>,
      <<"vorticity", "velocity">>, <<"divergence", "divergence">>>>
    \o [i \in 1..PRESSURE_ITERATIONS_VORTEX |-> <<"pressure", "pressure">>]
    \o <<<<"gradient", "velocity">>, <<"display", "canvas">>>>

(* C2: in vortex_bg.js the passes of a Running frame are, in this order and
   nothing else: the pointer splat if the pointer moved, the ribbon splat,
   advect velocity, advect dye, curl, vorticity confinement, divergence, the
   PRESSURE_ITERATIONS pressure sweeps, gradient subtraction, display. *)
C2_VortexStageOrder ==
    (variant = "vortex" /\ handler = "frame") =>
        Stages(log) \in {SplatStages("ribbon") \o PipelineVortex,
                         SplatStages("pointer") \o SplatStages("ribbon")
                             \o PipelineVortex}

C2_Witness ==
    /\ variant = "vortex"
    /\ handler = "frame"
    /\ HasPointerSplat(log)
    /\ presented.src = "frame"

(* C3: a frame callback taken while the active flag is false changes neither
   the read/write labels nor the content of any field. *)
C3_IdleFrameChangesNoField ==
    [][(~active /\ \E d \in Deltas : Update(d) \/ Animate(d))
           => UNCHANGED <<fields, content>>]_vars

(* An Idle frame came after a Running frame had written the fields *)
C3_Witness ==
    /\ ~active
    /\ handler = "frame"
    /\ elapsed.k = "num" /\ elapsed.v > 0
    /\ \E t \in DOMAIN content : content[t].src = "frame"

(* C4: after the resize listener every field is a texture of the newest
   generation and holds nothing but its initial clear. *)
C4_ResizeClearsEveryField ==
    handler = "resize" =>
        \A r \in Refs(variant) :
            /\ fields[r].gen = gen
            /\ fields[r] \in DOMAIN content
            /\ content[fields[r]] = Cleared

(* A resize after a Running frame that had presented written dye *)
C4_Witness == handler = "resize" /\ presented.src = "frame"

FirstSweepRead(l) == Sweeps(l)[1].smp["uPressure"].tag

(* C5: with no rebuild in between, the pressure the first Jacobi sweep of a
   Running frame samples is what the last sweep of the previous Running
   frame wrote. *)
C5_PressureWarmStart ==
    [][(FrameRan /\ hist.carry # NoneTag)
           => (Sweeps(log') # <<>> /\ FirstSweepRead(log') = hist.carry)]_vars

(* A Running frame whose first sweep read what a frame wrote two or more
   callbacks earlier *)
C5_Witness ==
    /\ handler = "frame"
    /\ Sweeps(log) # <<>>
    /\ FirstSweepRead(log).src = "frame"
    /\ FirstSweepRead(log).at + 1 < events

(* 0.033 * (TIME_STEP / 0.016) seconds, in microseconds *)
MaxDtVortex == (DT_CLAMP_MS * 1000 * TIME_STEP_MS) \div TARGET_STEP_MS

(* C6: in vortex_bg.js the dt of a Running frame is a number between 0 and
   0.033 * TIME_STEP / 0.016. *)
C6_VortexDtClamped ==
    variant = "vortex" => (dt.k = "num" /\ dt.v >= 0 /\ dt.v <= MaxDtVortex)

(* A Running frame after a stall: the clamp is reached *)
C6_Witness == variant = "vortex" /\ handler = "frame" /\ dt = Num(MaxDtVortex)

SplatDraw(e, f) == IsDraw(e) /\ e.prog = "splat" /\ e.tl = <<f, "write">>
SwapOf(f) == [k |-> "swap", f |-> f]

(* C7: every forcing event is followed by one splat pass into velocity.write,
   one swap of velocity, one splat pass into the write half of dye / density
   and one swap of it; there is no other splat pass. *)
C7_OneSplatPairPerEvent ==
    \A i \in 1..Len(log) :
        /\ log[i].k = "mark" =>
               /\ i + 4 <= Len(log)
               /\ SplatDraw(log[i + 1], "velocity")
               /\ log[i + 2] = SwapOf("velocity")
               /\ SplatDraw(log[i + 3], DyeField(variant))
               /\ log[i + 4] = SwapOf(DyeField(variant))
        /\ (IsDraw(log[i]) /\ log[i].prog = "splat") =>
               \/ (i > 1 /\ log[i - 1].k = "mark")
               \/ (i > 3 /\ log[i - 3].k = "mark")

(* A frame with a pointer event and a ribbon event, whose splats wrote *)
C7_Witness ==
    /\ handler = "frame"
    /\ HasPointerSplat(log)
    /\ \E i \in 1..Len(log) : log[i] = [k |-> "mark", ev |-> "ribbon"]
    /\ \A i \in 1..Len(log) : (IsDraw(log[i]) /\ log[i].prog = "splat") => log[i].wrote

(* C8: a frame applies the pointer splat only if the pointer had moved and
   was down. *)
C8_PointerSplatOnlyWhenDown ==
    [][(FrameBodyRan /\ HasPointerSplat(log'))
           => (pointer.down /\ pointer.moved)]_vars

(* C9: the frame that applies the pointer splat had moved set and leaves it
   reset; a frame that finds moved reset applies no pointer splat; moved is
   set again only by a pointer event, which issues no pass. *)
C9_MovementConsumedOnce ==
    [][/\ (FrameBodyRan /\ HasPointerSplat(log'))
              => (pointer.moved /\ ~pointer'.moved)
       /\ (FrameBodyRan /\ ~pointer.moved) => ~HasPointerSplat(log')
       /\ (~pointer.moved /\ pointer'.moved)
              => UNCHANGED <<events, fields, content, log>>]_vars

(* A frame has applied the pointer splat and moved is reset *)
C9_Witness == handler = "frame" /\ HasPointerSplat(log) /\ ~pointer.moved

(* C10: every pass that writes a field is issued from the body of the frame
   callback. *)
C10_FrameCallbackSoleWriter ==
    \A i \in 1..Len(log) :
        (IsDraw(log[i]) /\ log[i].wrote /\ log[i].tgt # Canvas)
            => log[i].scope = "frame"

(* C11: enable() and disable() change only the Idle/Running flag: a step of
   either leaves every field, every texture's content, the pointer state and
   the time since the last-frame timestamp as they were, and the solver is
   Running after enable() and Idle after disable() *)
C11_EnableDisableOnlyToggle ==
    [][/\ (Enable \/ Disable) =>
             UNCHANGED <<fields, content, pointer, elapsed, gl, canvas,
                         presented, ribbonProgress, loops, timers, listeners>>
       /\ Enable => active'
       /\ Disable => ~active']_vars

(* disable() after a Running frame: the solver is Idle and the fields the
   frame wrote are still there *)
C11_Witness ==
    /\ ~active
    /\ handler = "frame"
    /\ \A r \in Refs(variant) : fields[r] # NoTex

(* A resize listener runs for a surface of zero width or height *)
ZeroSizeResize ==
    /\ client' # client
    /\ (client'[1] = 0 \/ client'[2] = 0)

(* C12: a resize event that reports a zero-sized surface allocates no field:
   the fields and their contents are kept *)
C12_ZeroSizeResizeKeepsFields ==
    [][ZeroSizeResize => UNCHANGED <<fields, content>>]_vars

NoFieldAllocated == \A r \in Refs(variant) : fields[r] = NoTex

(* C13: without a GPU context no field is ever allocated, no frame callback
   and no ambient timer is ever scheduled, and no pass is ever issued,
   whatever init and enable calls were made *)
C13_NoContextIsPermanent ==
    ~webgl2 =>
        /\ NoFieldAllocated
        /\ content = NoContent
        /\ loops = 0
        /\ timers = 0
        /\ log = <<>>
        /\ handler = "load"

(* init was called without a context and enable() after it *)
C13_Witness ==
    /\ ~webgl2
    /\ active
    /\ (initialized \/ events > 0)

(* C14: if a kernel failed to compile or link, initialisation is fatal: no
   frame loop is ever scheduled and no frame callback ever runs a step *)
C14_KernelFailureIsFatal ==
    failedKernels # {} => (loops = 0 /\ handler # "frame")

(* An Idle frame callback is taken: update / animate with the flag clear *)
IdleFrame == ~active /\ \E d \in Deltas : Update(d) \/ Animate(d)

IsPresentation(e) ==
    /\ e.k = "draw"
    /\ e.prog = "display"
    /\ e.tgt = Canvas
    /\ e.smp["uTexture"].l = <<DyeField(variant), "read">>

PresentationsAt(l, n) ==
    {i \in 1..Len(l) : IsPresentation(l[i]) /\ l[i].at = n}

(* C15: every frame callback, Idle or Running, performs exactly one
   presentation pass of the dye field's read half *)
C15_PresentedEveryFrame ==
    [][(IdleFrame \/ FrameRan) =>
          Cardinality(PresentationsAt(log', events + 1)) = 1]_vars

(* C16: every Idle frame callback updates the last-frame timestamp, so the
   time since that timestamp is zero after it *)
C16_IdleFrameAdvancesTimer ==
    [][IdleFrame => elapsed' = Num(0)]_vars

----------------------------------------------------------------------------
(* Properties of the texel values *)

(* What the advect pass would store for a uniform velocity field if it
   decoded its source and encoded its result: encode(decode(c) * dissipation) *)
AdvectDecoded(v, c) ==
    WriteSigned(v, ReadSigned(v, c) * VELOCITY_DISSIPATION(v), PER_MILLE)

(* C17: every kernel of the vorticity variant that reads a signed quantity
   decodes it and every kernel that writes one encodes it; for advection
   applied to the velocity field, what is stored is the encoded product of
   the decoded source and the dissipation *)
C17_AdvectDecodesAndEncodes ==
    (data.kind = "advect" /\ data.stage = "advected")
        => data.c = AdvectDecoded(variant, data.c0)

(* One step of the texture between 0.5 and 1.0, doubled by decode *)
CodecTolerance == HalfFloatStep(ONE - 1)

RoundTripDone == data.kind = "codec" /\ data.stage = "decoded"

(* C18, as stated: decode(encode(v)) = v for every v in [-1,1], the scalar
   form giving the same result *)
C18_RoundTripExact ==
    RoundTripDone => (data.out = data.v /\ data.outScalar = data.out)

(* C18, amended: decode(encode(v)) read back from the half-float texture is
   within one storage step of v, is v itself whenever encode(v) is a half
   float, and the scalar form gives the same result *)
C18_RoundTripWithinStorageStep ==
    RoundTripDone =>
        /\ Abs(data.out - data.v) <= CodecTolerance
        /\ (2 * data.c = data.v + ONE => data.out = data.v)
        /\ data.outScalar = data.out

(* A value that came back changed, and within the tolerance *)
C18_Witness ==
    /\ RoundTripDone
    /\ data.out # data.v
    /\ data.v \in (-ONE)..ONE

(* The velocity is what it was before the projection *)
VelocityKept == data.vel = data.vel0

(* C19: after divergence, the full pressure solve and gradient subtraction
   on a divergence-free velocity field with the pressure as created, the
   velocity is unchanged at every texel and the pressure a kernel reads is
   zero at every texel *)
C19_ProjectionLeavesDivergenceFree ==
    (data.kind = "projection" /\ data.stage = "done") =>
        /\ VelocityKept
        /\ \A t \in Texels : ReadScalar(variant, data.p[t]) = 0

(* The part of C19 that holds in every variant: the velocity is unchanged
   and the divergence a kernel reads is zero *)
ProjectionKeepsVelocity ==
    (data.kind = "projection" /\ data.stage = "done") =>
        /\ VelocityKept
        /\ \A t \in Texels : ReadScalar(variant, data.div[t]) = 0

RECURSIVE SumOver(_, _)
SumOver(f, S) ==
    IF S = {} THEN 0
    ELSE LET t == CHOOSE u \in S : TRUE IN f[t] + SumOver(f, S \ {t})

(* The residual of the discrete Poisson equation at texel t: the 4-neighbour
   Laplacian of p with edge-clamped neighbours, minus the divergence *)
Residual(v, p, div, t) ==
    ReadScalar(v, TexL(p, t)) + ReadScalar(v, TexR(p, t))
    + ReadScalar(v, TexB(p, t)) + ReadScalar(v, TexT(p, t))
    - 4 * ReadScalar(v, p[t]) - ReadScalar(v, div[t])

(* The square of its L2 norm *)
Residual2(v, p, div) ==
    SumOver([t \in Texels |-> Residual(v, p, div, t) * Residual(v, p, div, t)], Texels)

(* Four times the residual at t of the pressure one sweep computes from p,
   before it is rounded to the texture: the computed pressure at u is
   PressureValue(u) / 4 *)
ComputedResidual4(v, p, div, t) ==
    PressureValue(v, p, div, <<Clamp(t[1] - 1, GridSize[1]), t[2]>>) + PressureValue(v, p, div, <<Clamp(t[1] + 1, GridSize[1]), t[2]>>)
    + PressureValue(v, p, div, <<t[1], Clamp(t[2] - 1, GridSize[2])>>) + PressureValue(v, p, div, <<t[1], Clamp(t[2] + 1, GridSize[2])>>)
    - 4 * PressureValue(v, p, div, t) - 4 * ReadScalar(v, div[t])

ComputedResidual2x16(v, p, div) ==
    SumOver([t \in Texels |->
               ComputedResidual4(v, p, div, t) * ComputedResidual4(v, p, div, t)],
            Texels)

(* A Jacobi sweep is taken *)
SweepTaken ==
    /\ data.kind \in {"projection", "jacobi"}
    /\ data.stage = "pressure"
    /\ data'.stage = "pressure"
    /\ data'.n = data.n + 1

(* C20, as stated: one more Jacobi sweep never increases the L2 norm of the
   residual of the pressure field *)
C20_ResidualNeverIncreases ==
    [][SweepTaken => Residual2(variant, data'.p, data.div)
                        <= Residual2(variant, data.p, data.div)]_vars

(* What the texture keeps is within half a half-float step of the computed
   value n/d *)
NearestHalfFloat(c, n, d) == 2 * Abs(d * c - n) <= d * HalfFloatStep(Abs(c))

StoredPressureIsRounded(v, p, div, q) ==
    \A t \in Texels :
        IF Encoded(v)
        THEN NearestHalfFloat(q[t], PressureValue(v, p, div, t) + 4 * ONE, 8)
        ELSE NearestHalfFloat(q[t], PressureValue(v, p, div, t), 4)

(* C20, amended: the pressure one more sweep computes never has a larger L2
   residual than the pressure it started from; the sweep stores that
   pressure rounded to the nearest half float, and only that rounding can
   make the residual of the stored field exceed the previous one *)
C20_ComputedResidualNeverIncreases ==
    [][SweepTaken =>
          /\ ComputedResidual2x16(variant, data.p, data.div)
                <= 16 * Residual2(variant, data.p, data.div)
          /\ StoredPressureIsRounded(variant, data.p, data.div, data'.p)]_vars

(* Two sweeps done on a pressure field that does not solve the equation *)
C20_Witness ==
    /\ data.kind = "jacobi"
    /\ data.n >= 2
    /\ Residual2(variant, data.p, data.div) > 0

(* The passes of log include passes of the body of a frame callback *)
HasFramePasses == \E i \in 1..Len(log) : IsDraw(log[i]) /\ log[i].scope = "frame"

(* C23: a Running frame issues exactly PRESSURE_ITERATIONS pressure passes;
   each of them renders into pressure.write and is followed at once by a
   swap of pressure, and pressure is swapped nowhere else. *)
C23_FixedSweepBudget ==
    (handler = "frame" \/ HasFramePasses) =>
        /\ Len(Sweeps(log)) = PRESSURE_ITERATIONS(variant)
        /\ \A i \in 1..Len(log) :
               /\ IsSweep(log[i]) =>
                      /\ log[i].tl = <<"pressure", "write">>
                      /\ i < Len(log)
                      /\ log[i + 1] = SwapOf("pressure")
               /\ log[i] = SwapOf("pressure") =>
                      (i > 1 /\ IsSweep(log[i - 1]))

(* A Running frame of a FluidSim variant whose sweeps all wrote *)
C23_Witness ==
    /\ IsFluidSim(variant)
    /\ handler = "frame"
    /\ Len(Sweeps(log)) = PRESSURE_ITERATIONS_FLUID
    /\ \A i \in 1..Len(log) : IsSweep(log[i]) => log[i].wrote

IsProjectionPass(e) == IsDraw(e) /\ e.prog \in {"divergence", "pressure", "gradient"}
IsAdvectPass(e) == IsDraw(e) /\ e.prog = "advect"

(* C24: in fluid_sim.js and part_000 every advection pass of a Running frame
   comes before every divergence, pressure and gradient-subtraction pass of
   the same frame. *)
C24_FluidSimAdvectsFirst ==
    (IsFluidSim(variant) /\ HasFramePasses) =>
        \A i, j \in 1..Len(log) :
            (IsAdvectPass(log[i]) /\ IsProjectionPass(log[j])) => i < j

(* 0.033 seconds, in microseconds *)
MaxDtFluid == DT_CLAMP_MS * 1000

(* C25: in fluid_sim.js and part_000 the dt of every frame body that ran,
   the one init runs included, is a number between 0 and a fixed maximum. *)
C25_FluidSimDtBounded ==
    (IsFluidSim(variant) /\ HasFramePasses) =>
        (dt.k = "num" /\ dt.v >= 0 /\ dt.v <= MaxDtFluid)

(* The same for being a number alone, whatever the maximum *)
FluidSimDtIsNumber ==
    (IsFluidSim(variant) /\ HasFramePasses) => dt.k = "num"

(* And for the frames of the frame loop that measured a time *)
FluidSimDtClamped ==
    (IsFluidSim(variant) /\ handler = "frame" /\ dt.k = "num") => dt.v <= MaxDtFluid

IsVelocityAdvect(e) == IsAdvectPass(e) /\ e.tl[1] = "velocity"
IsDyeAdvect(e) == IsAdvectPass(e) /\ e.tl[1] = DyeField(variant)

(* C26: the advection pass into dye / density samples, as uVelocity, the
   texture that is velocity.read when the pass is drawn, and what that
   texture holds is what the velocity advection pass of the same frame
   wrote. *)
C26_DyeAdvectedByCurrentVelocity ==
    \A i \in 1..Len(log) :
        IsDyeAdvect(log[i]) =>
            /\ log[i].smp["uVelocity"].l = <<"velocity", "read">>
            /\ \E j \in 1..(i - 1) :
                   /\ IsVelocityAdvect(log[j])
                   /\ log[j].wrote => log[i].smp["uVelocity"].tag = log[j].out

(* The same for vortex_bg.js alone *)
VortexDyeAdvectedByCurrentVelocity ==
    variant = "vortex" => C26_DyeAdvectedByCurrentVelocity

IsPass(e, prog) == IsDraw(e) /\ e.prog = prog
TouchesVelocity(e) ==
    \/ e = SwapOf("velocity")
    \/ (IsDraw(e) /\ e.tl[1] = "velocity")

(* No pass into velocity and no swap of velocity strictly between i and j *)
VelocityUntouched(l, i, j) == \A k \in (i + 1)..(j - 1) : ~TouchesVelocity(l[k])

(* C27: the gradient-subtraction pass of a frame samples, as uVelocity, the
   texture with the content the divergence pass of the frame sampled, and
   between the two no pass renders into velocity and velocity is not
   swapped; in vortex_bg.js that content is what the vorticity pass wrote,
   brought to velocity.read by the one swap that follows it. *)
C27_DivergenceAndGradientShareVelocity ==
    \A i, j \in 1..Len(log) :
        (IsPass(log[i], "divergence") /\ IsPass(log[j], "gradient")) =>
            /\ i < j
            /\ log[j].smp["uVelocity"].tex = log[i].smp["uVelocity"].tex
            /\ log[j].smp["uVelocity"].tag = log[i].smp["uVelocity"].tag
            /\ log[i].smp["uVelocity"].l = <<"velocity", "read">>
            /\ VelocityUntouched(log, i, j)
            /\ variant = "vortex" =>
                   \E k \in 1..(i - 2) :
                       /\ IsPass(log[k], "vorticity")
                       /\ log[k].tl = <<"velocity", "write">>
                       /\ log[k + 1] = SwapOf("velocity")
                       /\ VelocityUntouched(log, k + 1, i)
                       /\ log[k].wrote =>
                              log[i].smp["uVelocity"].tag = log[k].out

(* A Running frame of vortex_bg.js whose vorticity pass wrote and whose
   gradient subtraction then ran *)
C27_Witness ==
    /\ variant = "vortex"
    /\ handler = "frame"
    /\ \E k, j \in 1..Len(log) :
           /\ k < j
           /\ IsPass(log[k], "vorticity") /\ log[k].wrote
           /\ IsPass(log[j], "gradient") /\ log[j].wrote
           /\ log[j].smp["uVelocity"].tag = log[k].out

IsFramePass(e) == IsDraw(e) /\ e.scope = "frame"

(* The first pass of the frame body among the passes of l *)
FirstFramePass(l) ==
    CHOOSE i \in 1..Len(l) :
        IsFramePass(l[i]) /\ \A j \in 1..(i - 1) : ~IsFramePass(l[j])

(* The texture is one of the fields held when pass e was drawn, under label
   lbl, and was created by the newest rebuild *)
CurrentField(tex, lbl) == tex.gen = gen /\ lbl \in Refs(variant)

(* C28: once a frame body has issued its first pass, every later pass up to
   the display pass is a pass of the same frame callback, renders into and
   samples only fields of the one newest rebuild, and the frame ends with
   its display pass after all its pressure sweeps and its gradient
   subtraction: no rebuild, timer splat or other callback comes in
   between. *)
C28_FrameIsAtomic ==
    HasFramePasses =>
        LET first == FirstFramePass(log)
            last == Len(log)
        IN /\ \A i \in first..last :
                  /\ log[i].k = "mark" => log[i].ev \in {"pointer", "ribbon"}
                  /\ IsDraw(log[i]) =>
                         /\ log[i].scope = "frame"
                         /\ log[i].at = log[first].at
                         /\ log[i].tgt = Canvas
                                \/ CurrentField(log[i].tgt, log[i].tl)
                         /\ \A s \in DOMAIN log[i].smp :
                                CurrentField(log[i].smp[s].tex, log[i].smp[s].l)
           /\ IsPass(log[last], "display")
           /\ log[last].tgt = Canvas
           /\ \E j \in first..last : IsPass(log[j], "gradient")
           /\ Len(Sweeps(log)) = PRESSURE_ITERATIONS(variant)

(* A Running frame that applied the pointer splat and presented what it
   wrote, after a resize had rebuilt the fields *)
C28_Witness ==
    /\ handler = "frame"
    /\ HasPointerSplat(log)
    /\ gen > 1
    /\ presented.src = "frame"
    /\ presented.at = events

(* C29: after every frame callback, taken Idle or Running, the moved flag of
   the pointer is false. *)
C29_MovedClearedByEveryFrame ==
    [][(IdleFrame \/ FrameRan) => ~pointer'.moved]_vars

(* The same for the Running frames alone *)
MovedClearedByRunningFrame == [][FrameRan => ~pointer'.moved]_vars

(* C30: in vortex_bg.js the advection of a velocity field that decodes to
   zero at every texel stores a field that decodes to zero at every texel. *)
C30_RestIsFixedPointOfAdvection ==
    (/\ variant = "vortex"
     /\ data.kind = "advect"
     /\ data.stage = "advected"
     /\ Decode(data.c0) = 0) => Decode(data.c) = 0

(* The same where the stored value is the physical value *)
UnpackedRestIsFixedPointOfAdvection ==
    (/\ ~Encoded(variant)
     /\ data.kind = "advect"
     /\ data.stage = "advected"
     /\ data.c0 = 0) => data.c = 0

(* The pressure differences across texel t, as physical values *)
PressureDifference(v, p, t) ==
    <<ReadScalar(v, TexR(p, t)) - ReadScalar(v, TexL(p, t)),
      ReadScalar(v, TexT(p, t)) - ReadScalar(v, TexB(p, t))>>

(* What is stored for the physical velocity vel - 0.5 * (R - L, T - B) *)
HalfDifferenceSubtracted(v, vel, p, t) ==
    LET g == PressureDifference(v, p, t)
    IN <<WriteSigned(v, 2 * ReadSigned(v, vel[t][1]) - g[1], 2),
         WriteSigned(v, 2 * ReadSigned(v, vel[t][2]) - g[2], 2)>>

GradientSubtracted == data.kind = "gradient" /\ data.stage = "done"

(* C22: in every variant the velocity the gradient-subtraction pass stores at
   a texel is the old velocity minus half the difference of the right and
   left (top and bottom) edge-clamped pressure neighbours. *)
C22_GradientIsHalfCentralDifference ==
    GradientSubtracted =>
        \A t \in Texels :
            data.vel[t] = HalfDifferenceSubtracted(variant, data.vel0, data.p, t)

(* The same for vortex_bg.js alone *)
VortexGradientIsHalfCentralDifference ==
    variant = "vortex" => C22_GradientIsHalfCentralDifference

(* What fluid_sim.js and part_000 subtract is the whole difference *)
FluidSimGradientIsWholeDifference ==
    (IsFluidSim(variant) /\ GradientSubtracted) =>
        \A t \in Texels :
            LET g == PressureDifference(variant, data.p, t)
            IN data.vel[t] = <<data.vel0[t][1] - g[1], data.vel0[t][2] - g[2]>>

DyeAdvected == data.kind = "dye" /\ data.n > 0
Uniform(g) == \A s, t \in Texels : g[s] = g[t]

(* C21, as stated: after each advection step of a uniform dye field at zero
   velocity every texel equals the dye dissipation times its value before
   the step, and the field is uniform. *)
C21_DyeDecaysGeometrically ==
    DyeAdvected =>
        /\ Uniform(data.dye)
        /\ \A t \in Texels :
               data.dye[t] * DYE_DISSIPATION(variant)[2]
                   = data.dye0[t] * DYE_DISSIPATION(variant)[1]

(* c is a value the texture can hold *)
IsHalfFloat(c) == c % HalfFloatStep(Abs(c)) = 0

(* C21, amended: after each advection step of a uniform dye field at zero
   velocity every texel holds the half float nearest to the dye dissipation
   times its value before the step, which is smaller than that value, and
   the field is uniform. *)
C21_DyeDecaysToNearestHalfFloat ==
    DyeAdvected =>
        /\ Uniform(data.dye)
        /\ \A t \in Texels :
               /\ IsHalfFloat(data.dye[t])
               /\ NearestHalfFloat(data.dye[t],
                                   data.dye0[t] * DYE_DISSIPATION(variant)[1],
                                   DYE_DISSIPATION(variant)[2])
               /\ 0 < data.dye[t]
               /\ data.dye[t] < data.dye0[t]

(* Three advection steps on a dye seeded with 1.0 in the vorticity variant *)
C21_Witness ==
    /\ variant = "vortex"
    /\ data.kind = "dye"
    /\ data.seed = ONE
    /\ data.n >= 3
    /\ data.dye[<<0, 0>>] < data.dye0[<<0, 0>>]

IsScratchPass(e) == IsDraw(e) /\ e.tl[2] = "texture"
HasTexels(t) == t.w > 0 /\ t.h > 0

(* C31: at every draw the viewport covers the whole render target, and the
   divergence pass (and the curl pass of vortex_bg.js) of a frame writes
   every texel of its scratch field. *)
C31_EveryPassCoversItsTarget ==
    \A i \in 1..Len(log) :
        IsDraw(log[i]) =>
            /\ log[i].full
            /\ (IsScratchPass(log[i]) /\ HasTexels(log[i].tgt)) => log[i].wrote

(* The same for vortex_bg.js and fluid_sim.js alone *)
CoversItsTargetWhereViewportIsSet ==
    variant # "part_000" => C31_EveryPassCoversItsTarget

(* The part of C31 that is about the viewport, for part_000 *)
Part000ViewportCoversTarget ==
    variant = "part_000" => \A i \in 1..Len(log) : IsDraw(log[i]) => log[i].full

DoubleFields(v) == {"velocity", "pressure", DyeField(v)}

(* C32: the read half and the write half of every double-buffered field that
   has been created are two different textures of the same width and
   height; a swap makes each half the other, leaves every other label,
   every texture's content and the GL state as they are, and a second swap
   restores the labels. *)
C32_HalvesDistinctAndCongruent ==
    \A f \in DoubleFields(variant) :
        LET rd == <<f, "read">>
            wr == <<f, "write">>
            once == SwapOn(Machine("frame", events), f)
            twice == SwapOn(once, f)
        IN /\ (fields[rd] # NoTex \/ fields[wr] # NoTex) =>
                  /\ fields[rd] # NoTex
                  /\ fields[wr] # NoTex
                  /\ fields[rd] # fields[wr]
                  /\ fields[rd].w = fields[wr].w
                  /\ fields[rd].h = fields[wr].h
           /\ once.fields[rd] = fields[wr]
           /\ once.fields[wr] = fields[rd]
           /\ \A q \in Refs(variant) \ {rd, wr} : once.fields[q] = fields[q]
           /\ once.content = content
           /\ once.gl = gl
           /\ twice.fields = fields

(* After a resize, a Running frame of vortex_bg.js with a pointer splat has
   swapped velocity an odd number of times *)
C32_Witness ==
    /\ variant = "vortex"
    /\ handler = "frame"
    /\ gen > 1
    /\ fields[<<"velocity", "read">>].side = "b"
    /\ fields[<<"velocity", "write">>].side = "a"
    /\ fields[<<"velocity", "read">>].w > 0

(* Some init has got its context and run to its end *)
InitSucceeded == handler # "load"

(* C33: after a successful init exactly one frame callback is pending, and
   none before it. *)
C33_OneFrameLoopPending ==
    /\ InitSucceeded => loops = 1
    /\ ~InitSucceeded => loops = 0

(* A frame callback, Idle or Running, leaves as many frame callbacks pending
   as there were: it schedules one for the one that ran *)
FrameReschedulesItself ==
    [][(IdleFrame \/ FrameRan) => (loops > 0 /\ loops' = loops)]_vars

(* The same as C33 for vortex_bg.js alone *)
VortexOneFrameLoopPending == variant = "vortex" => C33_OneFrameLoopPending

AmbientMarks(l) == SelectSeq(l, LAMBDA e : e = [k |-> "mark", ev |-> "ambient"])

(* C34: in vortex_bg.js, whatever the number of calls of initFluidBackground,
   there is at most one frame loop, one ambient timer and one resize
   listener, exactly one of each once an init has got its context; the
   fields init leaves are those of the first rebuild, and the passes of init
   are the five initial splats of one call. *)
C34_InitIsIdempotent ==
    variant = "vortex" =>
        /\ loops <= 1 /\ timers <= 1 /\ listeners <= 1
        /\ (initialized /\ webgl2) => (loops = 1 /\ timers = 1 /\ listeners = 1)
        /\ handler = "init" =>
               /\ gen = 1
               /\ Len(AmbientMarks(log)) = INITIAL_SPLATS
               /\ \A i, j \in 1..Len(log) :
                      (IsDraw(log[i]) /\ IsDraw(log[j])) => log[i].at = log[j].at
        /\ \A s, t \in DOMAIN content :
               (content[s].src = "init" /\ content[t].src = "init")
                   => content[s].at = content[t].at

(* initFluidBackground has run and other callbacks have run since, and a
   further call is possible: one loop and one timer exist and the dye the
   initial splats wrote is still there *)
C34_Witness ==
    /\ variant = "vortex"
    /\ initialized
    /\ events > 1
    /\ events < MaxEvents
    /\ loops = 1
    /\ timers = 1
    /\ \E t \in DOMAIN content : content[t].src = "init"

RibbonEmitted == data.kind = "ribbon" /\ data.stage = "emitted"

(* C35: after emitRibbon, ribbonProgress is in [0,1) and is the value before
   plus dt * 0.16, less 1 if that reached 1; the emission point has x in
   [0.05, 0.85) and y in [0.14, 0.34]. *)
C35_RibbonStaysInRange ==
    RibbonEmitted =>
        /\ 0 <= data.rp
        /\ data.rp < RIBBON_UNIT
        /\ \E wraps \in {0, 1} :
               data.rp + wraps * RIBBON_UNIT
                   = data.rp0 + (data.dt.v * RIBBON_RATE_PCT) \div 100
        /\ 50000 <= data.x
        /\ data.x < 850000
        /\ 140000 <= data.y
        /\ data.y <= 340000

(* emitRibbon has taken ribbonProgress past 1 and back to the start *)
C35_Witness == RibbonEmitted /\ data.rp < data.rp0

(* In the callbacks: ribbonProgress is in [0,1) in every state *)
RibbonProgressInRange == 0 <= ribbonProgress /\ ribbonProgress < RIBBON_UNIT

RibbonMarks(l) == SelectSeq(l, LAMBDA e : e = [k |-> "mark", ev |-> "ribbon"])

(* A Running frame of vortex_bg.js emits one ribbon event, no other callback
   emits one *)
OneRibbonPerRunningFrame ==
    Len(RibbonMarks(log)) = IF variant = "vortex" /\ handler = "frame" THEN 1 ELSE 0

(* A Running frame advances ribbonProgress by its dt * 0.16 modulo 1; every
   other step, an Idle frame included, leaves it as it is *)
RibbonAdvancesInRunningFramesOnly ==
    [][IF FrameRan /\ variant = "vortex"
       THEN ribbonProgress' = (ribbonProgress + (dt'.v * RIBBON_RATE_PCT) \div 100)
                                  % RIBBON_UNIT
       ELSE UNCHANGED ribbonProgress]_vars

============================================================================
